---------------------------- MODULE Spec2Model ----------------------------
(***************************************************************************)
(* PPO_Agent (src/Agents/Policy_Gradient_Agents/PPO_Agent.py) as a state   *)
(* machine: the training loop of run_n_episodes, the policy pair and the   *)
(* pure functions of policy_learn.                                         *)
(*                                                                         *)
(* Numbers the code holds as floats are exact rationals <<n, d>> here      *)
(* (d > 0, lowest terms); <<-1, 0>> stands for float("-inf").  Rounding,   *)
(* underflow and overflow of floats are outside the model.                 *)
(***************************************************************************)
EXTENDS Integers, Sequences, FiniteSets, TLC

(***************************************************************************)
(* Bounds of the model.                                                    *)
(***************************************************************************)
MaxCalls == 2            \* calls of run_n_episodes explored
MaxEpisodesToRun == 2    \* largest num_episodes_to_run argument
MaxEPR == 2              \* largest episodes_per_learning_round
MaxIters == 2            \* largest learning_iterations_per_round
MaxRewardLen == 3        \* longest reward sequence drawn for the pure functions
MaxLossLen == 2          \* longest ratio/return list drawn for calculate_loss

(***************************************************************************)
(* Exact arithmetic standing for numpy / torch float arithmetic.           *)
(***************************************************************************)
Abs(x) == IF x < 0 THEN -x ELSE x

GCDOf[a \in Nat, b \in Nat] == IF b = 0 THEN a ELSE GCDOf[b, a % b]

GCD(a, b) == GCDOf[a, b]

Norm(n, d) ==
    IF d = 0 THEN <<(IF n < 0 THEN -1 ELSE 1), 0>>
    ELSE LET s == IF d < 0 THEN -1 ELSE 1
             g == GCD(Abs(n), Abs(d))
         IN  <<(s * n) \div g, (s * d) \div g>>

FromInt(i) == <<i, 1>>
Zero == <<0, 1>>
One == <<1, 1>>
NegInf == <<-1, 0>>

RAdd(a, b) ==
    LET g == GCD(a[2], b[2])
    IN  Norm(a[1] * (b[2] \div g) + b[1] * (a[2] \div g), (a[2] \div g) * b[2])
RNeg(a) == <<-a[1], a[2]>>
RSub(a, b) == RAdd(a, RNeg(b))
RMul(a, b) == Norm(a[1] * b[1], a[2] * b[2])
RDiv(a, b) == Norm(a[1] * b[2], a[2] * b[1])
RLess(a, b) == a[1] * b[2] < b[1] * a[2]
RLeq(a, b) == a[1] * b[2] <= b[1] * a[2]
RMin(a, b) == IF RLess(b, a) THEN b ELSE a
RMax(a, b) == IF RLess(a, b) THEN b ELSE a

RPow(a, k) ==
    LET pow[i \in 0..k] == IF i = 0 THEN One ELSE RMul(a, pow[i - 1])
    IN  pow[k]

RSum(s) ==
    LET sum[i \in 0..Len(s)] == IF i = 0 THEN Zero ELSE RAdd(sum[i - 1], s[i])
    IN  sum[Len(s)]

ISum(s) ==
    LET sum[i \in 0..Len(s)] == IF i = 0 THEN 0 ELSE sum[i - 1] + s[i]
    IN  sum[Len(s)]

Flatten(ss) ==
    LET cat[i \in 0..Len(ss)] == IF i = 0 THEN <<>> ELSE cat[i - 1] \o ss[i]
    IN  cat[Len(ss)]

\* s[from..] : the Python slice s[from-1:]
Slice(s, from) == [i \in 1..(Len(s) - from + 1) |-> s[from + i - 1]]

\* s[-n:] : the last n elements (all of s when it is shorter)
LastN(s, n) == IF Len(s) <= n THEN s ELSE Slice(s, Len(s) - n + 1)


(***************************************************************************)
(* Configuration: what the config object hands to Base_Agent.__init__.     *)
(* An environment fixes the action type, the values its episodes can hold  *)
(* and the score bookkeeping parameters.                                   *)
(***************************************************************************)
Environments ==
    { [name |-> "discrete", action_types |-> "DISCRETE", action_size |-> 2,
       states |-> {0, 1}, actions |-> {2}, rewards |-> {1},
       max_steps_per_episode |-> 1,
       average_score_required_to_win |-> 1, rolling_score_window |-> 2],
      [name |-> "two-step", action_types |-> "DISCRETE", action_size |-> 2,
       states |-> {1}, actions |-> {1}, rewards |-> {1},
       max_steps_per_episode |-> 2,
       average_score_required_to_win |-> 2, rolling_score_window |-> 1],
      [name |-> "continuous", action_types |-> "CONTINUOUS", action_size |-> 1,
       states |-> {1}, actions |-> {<<1>>}, rewards |-> {0, 3},
       max_steps_per_episode |-> 1,
       average_score_required_to_win |-> 1, rolling_score_window |-> 2] }

DiscountRates == {<<9, 10>>, <<1, 2>>, <<1, 1>>}
ClipEpsilons == {<<1, 5>>, <<1, 2>>}
LearningRates == {1}
ParamVals == {0, 1}
RandomSeeds == {1}

VARIABLES
    config,                 \* environment, hyperparameters, random_seed
    policy_new,             \* parameters of self.policy_new
    policy_old,             \* parameters of self.policy_old
    policy_new_optimizer,   \* [params: the network it steps, lr]
    episode_number,
    many_episode_states,
    many_episode_actions,
    many_episode_rewards,
    game_full_episode_scores,
    rolling_results,
    max_rolling_score_seen,
    pc,                     \* position in run_n_episodes ("idle": no call running)
    num_episodes_to_run,    \* argument of the running call
    iter,                   \* policy_learn calls made in the current round
    all_ratio_of_policy_probabilities,   \* locals of the last policy_learn
    all_discounted_returns,              \* as built by lines 66-72
    returns_for_loss,                    \* as handed to calculate_loss (line 77)
    loss,
    log,                    \* operations performed by the running / last call
    calls,                  \* calls of run_n_episodes made so far
    episode_number_at_call, \* episode_number when the running call started
    episodes_collected,     \* episodes returned by play_n_episodes so far
    ratio_computed,         \* a probability ratio has been computed
    synced                  \* equalise_policies has been called

vars == <<config, policy_new, policy_old, policy_new_optimizer, episode_number,
          many_episode_states, many_episode_actions, many_episode_rewards,
          game_full_episode_scores, rolling_results, max_rolling_score_seen,
          pc, num_episodes_to_run, iter, all_ratio_of_policy_probabilities,
          all_discounted_returns, returns_for_loss, loss, log, calls,
          episode_number_at_call, episodes_collected, ratio_computed, synced>>

hyperparameters == config.hyperparameters
environment == config.environment
action_types == environment.action_types
action_size == environment.action_size
average_score_required_to_win == FromInt(environment.average_score_required_to_win)
rolling_score_window == environment.rolling_score_window
max_steps_per_episode == environment.max_steps_per_episode

(***************************************************************************)
(* initialise_policies                                                     *)
(***************************************************************************)
policy_output_size ==
    IF action_types = "DISCRETE" THEN action_size ELSE action_size * 2

\* Neural_Network(state_size, output_size, seed, hyperparameters): the seed
\* determines the initial weights.
Neural_Network(output_size, seed) ==
    [j \in 1..output_size |-> (seed + j) % 2]

InitialPolicyNew == Neural_Network(policy_output_size, config.random_seed)

\* variant: policy_old built from another seed than policy_new
InitialPolicyOld_OtherSeed ==
    Neural_Network(policy_output_size, config.random_seed + 1)

InitialPolicyOld == Neural_Network(policy_output_size, config.random_seed)

\* every parameter vector a network of this shape can hold
Networks == [1..policy_output_size -> ParamVals]

(***************************************************************************)
(* calculate_discounted_reward                                             *)
(***************************************************************************)
\* discount_rate ** np.arange(n)
Discounts(n) == [k \in 1..n |-> RPow(hyperparameters.discount_rate, k - 1)]

\* np.dot
Dot(u, v) == RSum([i \in 1..Len(u) |-> RMul(u[i], v[i])])

\* variant: discounts starting at discount_rate^1 instead of discount_rate^0
CalculateDiscountedReward_Shifted(rewards) ==
    Dot([k \in 1..Len(rewards) |-> RPow(hyperparameters.discount_rate, k)],
        [i \in 1..Len(rewards) |-> FromInt(rewards[i])])

CalculateDiscountedReward(rewards) ==
    Dot(Discounts(Len(rewards)), [i \in 1..Len(rewards) |-> FromInt(rewards[i])])

(***************************************************************************)
(* calculate_policy_action_probability_ratio                               *)
(***************************************************************************)
\* Neural_Network.forward: one output per parameter
Forward(net, state) == [j \in 1..Len(net) |-> net[j] * (state + 1)]

Pow2(k) == 2 ^ k

\* create_actor_distribution(...).log_prob(action), held as the probability
\* (density) whose logarithm it is.
ActionProbability(output, action) ==
    IF action_types = "DISCRETE"
    THEN Norm(Pow2(output[action]),
              ISum([j \in 1..Len(output) |-> Pow2(output[j])]))
    ELSE LET dim(i) ==
                 LET mean == output[i]
                     scale == Abs(output[action_size + i]) + 1
                     dist == action[i] - mean
                 IN  Norm(1, scale * (1 + dist * dist))
             prod[i \in 0..action_size] ==
                 IF i = 0 THEN One ELSE RMul(prod[i - 1], dim(i))
         IN  prod[action_size]

\* torch.exp(new log prob) / torch.exp(old log prob)
ProbabilityRatio(new_net, old_net, state, action) ==
    RDiv(ActionProbability(Forward(new_net, state), action),
         ActionProbability(Forward(old_net, state), action))

CalculatePolicyActionProbabilityRatio(state, action) ==
    ProbabilityRatio(policy_new, policy_old, state, action)

(***************************************************************************)
(* calculate_loss                                                          *)
(***************************************************************************)
\* torch.clamp(value, min=lo, max=hi)
Clamp(value, lo, hi) == RMin(RMax(value, lo), hi)

ClippedProbabilityRatios(ratios) ==
    [i \in 1..Len(ratios) |->
        Clamp(ratios[i], RSub(One, hyperparameters.clip_epsilon),
                         RAdd(One, hyperparameters.clip_epsilon))]

\* variant: the larger of the two products instead of torch.min
ObservationLosses_Max(ratios, returns) ==
    [i \in 1..Len(ratios) |->
        RMax(RMul(ratios[i], returns[i]),
             RMul(ClippedProbabilityRatios(ratios)[i], returns[i]))]

ObservationLosses(ratios, returns) ==
    [i \in 1..Len(ratios) |->
        RMin(RMul(ratios[i], returns[i]),
             RMul(ClippedProbabilityRatios(ratios)[i], returns[i]))]

CalculateLoss(ratios, returns) ==
    RDiv(RNeg(RSum(ObservationLosses(ratios, returns))), FromInt(Len(ratios)))

(***************************************************************************)
(* normalise_rewards (Utility_Functions): z-score with a guard against a   *)
(* zero deviation; the square root is taken to one decimal place.          *)
(***************************************************************************)
ISqrt(x) == CHOOSE k \in 0..x : k * k <= x /\ x < (k + 1) * (k + 1)

NormaliseRewards(returns) ==
    LET n == FromInt(Len(returns))
        mean == RDiv(RSum(returns), n)
        centred == [i \in 1..Len(returns) |-> RSub(returns[i], mean)]
        variance == RDiv(RSum([i \in 1..Len(returns) |->
                                  RMul(centred[i], centred[i])]), n)
        std == Norm(ISqrt((variance[1] * 100) \div variance[2]), 10)
    IN  IF std[1] = 0 THEN centred
        ELSE [i \in 1..Len(returns) |-> RDiv(centred[i], std)]

(***************************************************************************)
(* policy_learn: the two lists it builds, in episode order then time order *)
(***************************************************************************)
EpisodeReturns(rewards) ==
    [ix \in 1..Len(rewards) |-> CalculateDiscountedReward(Slice(rewards, ix))]

EpisodeRatios(states, actions) ==
    [ix \in 1..Len(states) |->
        CalculatePolicyActionProbabilityRatio(states[ix], actions[ix])]

AllDiscountedReturns ==
    Flatten([e \in 1..Len(many_episode_states) |->
                EpisodeReturns(many_episode_rewards[e])])

AllRatios ==
    Flatten([e \in 1..Len(many_episode_states) |->
                EpisodeRatios(many_episode_states[e], many_episode_actions[e])])

\* lines 74-75
ReturnsForLoss ==
    IF hyperparameters.normalise_rewards
    THEN NormaliseRewards(AllDiscountedReturns)
    ELSE AllDiscountedReturns

(***************************************************************************)
(* take_policy_new_optimisation_step: the optimizer steps the parameters   *)
(* it was constructed over (__init__); the step itself is any parameter    *)
(* vector of the network's shape.                                          *)
(***************************************************************************)
\* variant: an optimizer constructed over policy_old.parameters()
OptimizerParams_Old == "policy_old"

OptimizerParams == "policy_new"

TakePolicyNewOptimisationStep(p) ==
    IF policy_new_optimizer.params = "policy_new"
    THEN policy_new' = p /\ UNCHANGED policy_old
    ELSE policy_old' = p /\ UNCHANGED policy_new

(***************************************************************************)
(* equalise_policies: zip(old parameters, new parameters), copy new -> old *)
(***************************************************************************)
\* variant: an equalise_policies that copies nothing
EqualisedPolicyOld_Rebound == policy_old

EqualisedPolicyOld == [j \in 1..Len(policy_old) |-> policy_new[j]]

(***************************************************************************)
(* save_result, and Base_Agent.save_max_result_seen                        *)
(***************************************************************************)
Mean(scores) == RDiv(FromInt(ISum(scores)), FromInt(Len(scores)))

\* the two histories after the loop of save_result over the batch `rewards`
SaveResult(scores, rolling, rewards) ==
    LET after[ep \in 0..Len(rewards)] ==
            IF ep = 0 THEN <<scores, rolling>>
            ELSE LET total_reward == ISum(rewards[ep])
                     appended == Append(after[ep - 1][1], total_reward)
                 IN  <<appended,
                       Append(after[ep - 1][2],
                              Mean(LastN(appended, rolling_score_window)))>>
    IN  after[Len(rewards)]

SaveMaxResultSeen(seen, rolling) ==
    IF rolling = <<>> THEN seen ELSE RMax(seen, rolling[Len(rolling)])

(***************************************************************************)
(* Parallel_Experience_Generator.play_n_episodes: the episodes an          *)
(* environment can produce, each of 1..max_steps_per_episode steps.        *)
(***************************************************************************)
Episodes ==
    UNION { [states : [1..n -> environment.states],
             actions : [1..n -> environment.actions],
             rewards : [1..n -> environment.rewards]] : n \in 1..max_steps_per_episode }

PlayNEpisodes(count) == [1..count -> Episodes]

\* variant: a collection appended to the stored batch
StoredBatch_Accumulated(old, new) == old \o new

\* what line 44 stores: the previous batch is replaced
StoredBatch(old, new) == new

(***************************************************************************)
(* run_n_episodes                                                          *)
(***************************************************************************)
\* variant: the while test with <= in place of <
LoopCondition_Inclusive == episode_number <= num_episodes_to_run

\* line 43
LoopCondition == episode_number < num_episodes_to_run

\* variant: the break test with its operands exchanged
BreakCondition_Reversed ==
    RLess(max_rolling_score_seen, average_score_required_to_win)

\* variant: the break test with >= in place of >
BreakCondition_AtLeast ==
    RLeq(average_score_required_to_win, max_rolling_score_seen)

\* line 48
BreakCondition == RLess(average_score_required_to_win, max_rolling_score_seen)

\* variant: one policy_learn call more than learning_iterations_per_round
LearnLoopCondition_OneMore ==
    iter <= hyperparameters.learning_iterations_per_round

\* line 51
LearnLoopCondition == iter < hyperparameters.learning_iterations_per_round

\* line 45
NextEpisodeNumber == episode_number + hyperparameters.episodes_per_learning_round

learnLocals == <<all_ratio_of_policy_probabilities, all_discounted_returns,
                 returns_for_loss, loss>>
batchVars == <<many_episode_states, many_episode_actions, many_episode_rewards>>
scoreVars == <<game_full_episode_scores, rolling_results, max_rolling_score_seen>>
policyVars == <<policy_new, policy_old, policy_new_optimizer>>
histVars == <<calls, episode_number_at_call, episodes_collected, ratio_computed,
              synced>>

NoLocals ==
    /\ all_ratio_of_policy_probabilities' = <<>>
    /\ all_discounted_returns' = <<>>
    /\ returns_for_loss' = <<>>
    /\ loss' = Zero

\* Base_Agent.update_learning_rate(starting_lr, optimizer): the rate is the
\* starting rate, in tenths, halved once the last rolling result is above
\* half the required score.
ScheduledLearningRate(starting_lr) ==
    IF rolling_results # <<>>
       /\ RLess(RDiv(average_score_required_to_win, FromInt(2)),
                rolling_results[Len(rolling_results)])
    THEN starting_lr * 5
    ELSE starting_lr * 10

CallRunNEpisodes ==
    /\ pc = "idle"
    /\ calls < MaxCalls
    /\ \E n \in 0..MaxEpisodesToRun : num_episodes_to_run' = n
    /\ pc' = "while"
    /\ log' = <<>>
    /\ calls' = calls + 1
    /\ episode_number_at_call' = episode_number
    /\ NoLocals
    /\ UNCHANGED <<config, policyVars, episode_number, batchVars, scoreVars,
                   iter, episodes_collected, ratio_computed, synced>>

WhileTest ==
    /\ pc = "while"
    /\ pc' = IF LoopCondition THEN "collect" ELSE "return"
    /\ NoLocals
    /\ UNCHANGED <<config, policyVars, episode_number, batchVars, scoreVars,
                   num_episodes_to_run, iter, log, histVars>>

Collect ==
    /\ pc = "collect"
    /\ \E batch \in PlayNEpisodes(hyperparameters.episodes_per_learning_round) :
          LET states == [e \in 1..Len(batch) |-> batch[e].states]
              actions == [e \in 1..Len(batch) |-> batch[e].actions]
              rewards == [e \in 1..Len(batch) |-> batch[e].rewards]
              stored == StoredBatch(many_episode_rewards, rewards)
              saved == SaveResult(game_full_episode_scores, rolling_results, stored)
          IN  /\ many_episode_states' = StoredBatch(many_episode_states, states)
              /\ many_episode_actions' = StoredBatch(many_episode_actions, actions)
              /\ many_episode_rewards' = stored
              /\ game_full_episode_scores' = saved[1]
              /\ rolling_results' = saved[2]
              /\ max_rolling_score_seen' =
                     SaveMaxResultSeen(max_rolling_score_seen, saved[2])
              /\ episodes_collected' = episodes_collected + Len(batch)
    /\ episode_number' = NextEpisodeNumber
    /\ pc' = "check"
    /\ log' = Append(log, "collect")
    /\ NoLocals
    /\ UNCHANGED <<config, policyVars, num_episodes_to_run, iter, calls,
                   episode_number_at_call, ratio_computed, synced>>

CheckStop ==
    /\ pc = "check"
    /\ IF BreakCondition
       THEN pc' = "return" /\ log' = Append(log, "break")
       ELSE pc' = "learn" /\ log' = log
    /\ iter' = 0
    /\ NoLocals
    /\ UNCHANGED <<config, policyVars, episode_number, batchVars, scoreVars,
                   num_episodes_to_run, histVars>>

PolicyLearn ==
    /\ pc = "learn"
    /\ LearnLoopCondition
    /\ all_discounted_returns' = AllDiscountedReturns
    /\ returns_for_loss' = ReturnsForLoss
    /\ all_ratio_of_policy_probabilities' = AllRatios
    /\ loss' = CalculateLoss(AllRatios, ReturnsForLoss)
    /\ \E p \in Networks : TakePolicyNewOptimisationStep(p)
    /\ iter' = iter + 1
    /\ log' = Append(log, "learn")
    /\ ratio_computed' = TRUE
    /\ UNCHANGED <<config, policy_new_optimizer, episode_number, batchVars,
                   scoreVars, pc, num_episodes_to_run, calls,
                   episode_number_at_call, episodes_collected, synced>>

LearnLoopExit ==
    /\ pc = "learn"
    /\ ~LearnLoopCondition
    /\ pc' = "lr"
    /\ NoLocals
    /\ UNCHANGED <<config, policyVars, episode_number, batchVars, scoreVars,
                   num_episodes_to_run, iter, log, histVars>>

UpdateLearningRate ==
    /\ pc = "lr"
    /\ policy_new_optimizer' =
           [policy_new_optimizer EXCEPT !.lr = ScheduledLearningRate(hyperparameters.learning_rate)]
    /\ pc' = "sync"
    /\ log' = Append(log, "lr")
    /\ NoLocals
    /\ UNCHANGED <<config, policy_new, policy_old, episode_number, batchVars,
                   scoreVars, num_episodes_to_run, iter, histVars>>

EqualisePolicies ==
    /\ pc = "sync"
    /\ policy_old' = EqualisedPolicyOld
    /\ pc' = "while"
    /\ log' = Append(log, "sync")
    /\ synced' = TRUE
    /\ NoLocals
    /\ UNCHANGED <<config, policy_new, policy_new_optimizer, episode_number,
                   batchVars, scoreVars, num_episodes_to_run, iter, calls,
                   episode_number_at_call, episodes_collected, ratio_computed>>

Return ==
    /\ pc = "return"
    /\ pc' = "idle"
    /\ log' = Append(log, "return")
    /\ NoLocals
    /\ UNCHANGED <<config, policyVars, episode_number, batchVars, scoreVars,
                   num_episodes_to_run, iter, histVars>>

(***************************************************************************)
(* __init__ and the training loop                                          *)
(***************************************************************************)
Hyperparameters(rates, epsilons, normalise) ==
    [learning_rate : LearningRates,
     episodes_per_learning_round : 1..MaxEPR,
     learning_iterations_per_round : 0..MaxIters,
     discount_rate : rates,
     clip_epsilon : epsilons,
     normalise_rewards : normalise]

Configs ==
    [environment : Environments,
     hyperparameters : Hyperparameters({<<9, 10>>}, {<<1, 5>>}, BOOLEAN),
     random_seed : RandomSeeds]

\* Base_Agent.__init__, initialise_policies and the optimizer (lines 16-19)
Built(c) ==
    /\ config = c
    /\ policy_new = InitialPolicyNew
    /\ policy_old = InitialPolicyOld
    /\ policy_new_optimizer =
           [params |-> OptimizerParams, lr |-> c.hyperparameters.learning_rate * 10]

Constructed(c) ==
    /\ Built(c)
    /\ episode_number = 0
    /\ many_episode_states = <<>>
    /\ many_episode_actions = <<>>
    /\ many_episode_rewards = <<>>
    /\ game_full_episode_scores = <<>>
    /\ rolling_results = <<>>
    /\ max_rolling_score_seen = NegInf

NoCallYet ==
    /\ pc = "idle"
    /\ num_episodes_to_run = 0
    /\ iter = 0
    /\ all_ratio_of_policy_probabilities = <<>>
    /\ all_discounted_returns = <<>>
    /\ returns_for_loss = <<>>
    /\ loss = Zero
    /\ log = <<>>
    /\ calls = 0
    /\ episode_number_at_call = 0
    /\ episodes_collected = 0
    /\ ratio_computed = FALSE
    /\ synced = FALSE

Init == (\E c \in Configs : Constructed(c)) /\ NoCallYet

Next ==
    \/ CallRunNEpisodes
    \/ WhileTest
    \/ Collect
    \/ CheckStop
    \/ PolicyLearn
    \/ LearnLoopExit
    \/ UpdateLearningRate
    \/ EqualisePolicies
    \/ Return

Spec == Init /\ [][Next]_vars

\* A running call is executed to its end; whether run_n_episodes is called
\* again is the caller's choice.
Step ==
    \/ WhileTest
    \/ Collect
    \/ CheckStop
    \/ PolicyLearn
    \/ LearnLoopExit
    \/ UpdateLearningRate
    \/ EqualisePolicies
    \/ Return

\* Every Step moves pc or iter, and some Step is enabled whenever a call is
\* running, so fairness of Step is fairness of "the running call advances";
\* stated on pc and iter alone, its enabledness needs no batch or loss.
ProgramPoints == {"idle", "while", "collect", "check", "learn", "lr", "sync", "return"}

Advance ==
    /\ pc # "idle"
    /\ pc' \in ProgramPoints
    /\ iter' \in 0..MaxIters

FairSpec == Init /\ [][Next]_vars /\ WF_<<pc, iter>>(Advance)

(***************************************************************************)
(* policy_learn on its own: the first learning round of the first call,    *)
(* with reward sequences of up to MaxRewardLen steps.                      *)
(***************************************************************************)
LongEnvironment ==
    [name |-> "long", action_types |-> "DISCRETE", action_size |-> 2,
     states |-> {1}, actions |-> {1}, rewards |-> {-1, 1},
     max_steps_per_episode |-> MaxRewardLen,
     average_score_required_to_win |-> 100, rolling_score_window |-> 2]

LearnConfigs ==
    [environment : {LongEnvironment},
     hyperparameters : [learning_rate : LearningRates,
                        episodes_per_learning_round : {1, 2},
                        learning_iterations_per_round : {1},
                        discount_rate : DiscountRates,
                        clip_epsilon : {<<1, 5>>},
                        normalise_rewards : {FALSE}],
     random_seed : RandomSeeds]

InitLearn ==
    /\ \E c \in LearnConfigs : Built(c)
    /\ \E batch \in PlayNEpisodes(hyperparameters.episodes_per_learning_round) :
          /\ many_episode_states = [e \in 1..Len(batch) |-> batch[e].states]
          /\ many_episode_actions = [e \in 1..Len(batch) |-> batch[e].actions]
          /\ many_episode_rewards = [e \in 1..Len(batch) |-> batch[e].rewards]
    /\ episode_number = hyperparameters.episodes_per_learning_round
    /\ game_full_episode_scores = SaveResult(<<>>, <<>>, many_episode_rewards)[1]
    /\ rolling_results = SaveResult(<<>>, <<>>, many_episode_rewards)[2]
    /\ max_rolling_score_seen = SaveMaxResultSeen(NegInf, rolling_results)
    /\ pc = "learn"
    /\ num_episodes_to_run = hyperparameters.episodes_per_learning_round
    /\ iter = 0
    /\ all_ratio_of_policy_probabilities = <<>>
    /\ all_discounted_returns = <<>>
    /\ returns_for_loss = <<>>
    /\ loss = Zero
    /\ log = <<"collect">>
    /\ calls = 1
    /\ episode_number_at_call = 0
    /\ episodes_collected = Len(many_episode_rewards)
    /\ ratio_computed = FALSE
    /\ synced = FALSE

SpecLearn == InitLearn /\ [][PolicyLearn]_vars

(***************************************************************************)
(* calculate_loss on its own: line 77 of policy_learn, with the two lists  *)
(* drawn from RatioVals and ReturnVals.                                    *)
(***************************************************************************)
RatioVals == {<<1, 2>>, <<4, 5>>, <<1, 1>>, <<6, 5>>, <<3, 2>>, <<2, 1>>}
ReturnVals == {<<-10, 1>>, <<-1, 1>>, <<0, 1>>, <<1, 1>>, <<19, 10>>, <<10, 1>>}

LossConfigs ==
    [environment : {LongEnvironment},
     hyperparameters : [learning_rate : LearningRates,
                        episodes_per_learning_round : {1},
                        learning_iterations_per_round : {1},
                        discount_rate : {<<9, 10>>},
                        clip_epsilon : ClipEpsilons,
                        normalise_rewards : {FALSE}],
     random_seed : RandomSeeds]

InitLoss ==
    /\ \E c \in LossConfigs : Constructed(c)
    /\ \E n \in 1..MaxLossLen :
          /\ all_ratio_of_policy_probabilities \in [1..n -> RatioVals]
          /\ returns_for_loss \in [1..n -> ReturnVals]
    /\ all_discounted_returns = returns_for_loss
    /\ loss = Zero
    /\ pc = "calculate_loss"
    /\ num_episodes_to_run = 1
    /\ iter = 0
    /\ log = <<"collect">>
    /\ calls = 1
    /\ episode_number_at_call = 0
    /\ episodes_collected = 0
    /\ ratio_computed = TRUE
    /\ synced = FALSE

CalculateLossCall ==
    /\ pc = "calculate_loss"
    /\ loss' = CalculateLoss(all_ratio_of_policy_probabilities, returns_for_loss)
    /\ pc' = "loss_returned"
    /\ UNCHANGED <<config, policyVars, episode_number, batchVars, scoreVars,
                   num_episodes_to_run, iter, all_ratio_of_policy_probabilities,
                   all_discounted_returns, returns_for_loss, log, histVars>>

SpecLoss == InitLoss /\ [][CalculateLossCall]_vars

(***************************************************************************)
(* Properties                                                              *)
(***************************************************************************)
Last(seq) == seq[Len(seq)]
Count(seq, x) == Cardinality({i \in 1..Len(seq) : seq[i] = x})
StopConditionHolds == RLess(average_score_required_to_win, max_rolling_score_seen)

\* C1: once max_rolling_score_seen > average_score_required_to_win holds after a
\* collection, run_n_episodes stops: that round has no policy_learn, no
\* learning-rate update and no equalise_policies, and the call starts no further
\* collection (the break directly follows the collection and only the return
\* follows it).
C1_StopsOnceScoreExceeded ==
    /\ pc \in {"learn", "lr", "sync"} => ~StopConditionHolds
    /\ (pc \in {"while", "collect"} /\ log # <<>>) => ~StopConditionHolds
    /\ pc = "return" /\ StopConditionHolds /\ log # <<>> => Last(log) = "break"
    /\ \A i \in 1..Len(log) :
          log[i] = "break" =>
             /\ i > 1 /\ log[i - 1] = "collect"
             /\ i = Len(log) \/ (i + 1 = Len(log) /\ log[i + 1] = "return")

\* a call that ran at least one full learning round and then stopped early
C1_Witness ==
    /\ pc = "idle"
    /\ Len(log) > 3
    /\ log[Len(log) - 1] = "break"
    /\ Count(log, "sync") >= 1

\* C2 as stated: after a collection, a rolling-average score greater than or
\* equal to the target ends the loop in that round (so no state of the learning
\* phase has a last rolling result >= the target).
C2_StopsAtOrAboveTarget ==
    pc \in {"learn", "lr", "sync"} =>
        RLess(Last(rolling_results), average_score_required_to_win)

\* C2 amended: after every collection the loop ends in that round exactly when
\* max_rolling_score_seen is strictly greater than average_score_required_to_win;
\* with a score equal to the target the round goes on to learning.
C2_StopsOnlyAboveTarget ==
    [][pc = "check" =>
          IF RLess(average_score_required_to_win, max_rolling_score_seen)
          THEN pc' = "return"
          ELSE pc' = "learn"]_vars

\* a round that goes on to learning with the score exactly at the target
C2_Witness ==
    /\ pc = "learn"
    /\ Last(rolling_results) = average_score_required_to_win
    /\ max_rolling_score_seen = average_score_required_to_win

\* C3: policy_old's parameters change only in equalise_policies (where they
\* become policy_new's); every other operation, the optimizer step included,
\* leaves them as they are, and policy_new changes only in the optimizer step
\* of policy_learn.
C3_OnlyEqualiseChangesOld ==
    [][/\ policy_old' # policy_old => pc = "sync" /\ policy_old' = policy_new
       /\ policy_new' # policy_new => pc = "learn"]_vars

\* after a sync, an optimizer step has moved policy_new away from policy_old
C3_Witness ==
    /\ pc = "learn"
    /\ iter > 0
    /\ synced
    /\ policy_new # policy_old
    /\ policy_old # InitialPolicyOld

\* C4: the operations of a call come in rounds of one collection, exactly
\* learning_iterations_per_round policy_learn calls, one learning-rate update
\* and one equalise_policies, in this order; only the last collection of a call
\* may instead be followed by the break.
RoundLength == hyperparameters.learning_iterations_per_round + 3

ExpectedOperation(i) ==
    LET k == (i - 1) % RoundLength
    IN  IF k = 0 THEN "collect"
        ELSE IF k <= hyperparameters.learning_iterations_per_round THEN "learn"
        ELSE IF k = hyperparameters.learning_iterations_per_round + 1 THEN "lr"
        ELSE "sync"

C4_RoundOrder ==
    /\ \A i \in 1..Len(log) :
          log[i] \in {"break", "return"} \/ log[i] = ExpectedOperation(i)
    /\ pc = "collect" => (log = <<>> \/ Last(log) = "sync")
    /\ pc = "sync" => Last(log) = "lr"
    /\ pc = "learn" =>
          /\ iter <= hyperparameters.learning_iterations_per_round
          /\ Len(log) > iter
          /\ log[Len(log) - iter] = "collect"
    /\ pc = "lr" =>
          /\ iter = hyperparameters.learning_iterations_per_round
          /\ Len(log) > iter
          /\ log[Len(log) - iter] = "collect"

\* two complete rounds of two policy_learn calls each
C4_Witness ==
    /\ pc = "while"
    /\ hyperparameters.learning_iterations_per_round = 2
    /\ log = <<"collect", "learn", "learn", "lr", "sync",
               "collect", "learn", "learn", "lr", "sync">>

NoStepSinceSync ==
    /\ synced
    /\ \/ pc \in {"while", "collect", "check", "return", "idle"}
       \/ pc = "learn" /\ iter = 0

C6_RatioOneAfterEqualise ==
    /\ NoStepSinceSync =>
          /\ \A j \in 1..Len(policy_old) : policy_old[j] = policy_new[j]
          /\ Len(policy_old) = Len(policy_new)
          /\ \A st \in environment.states : \A a \in environment.actions :
                CalculatePolicyActionProbabilityRatio(st, a) = One
    /\ (pc = "learn" /\ iter = 1 /\ synced) =>
          \A i \in 1..Len(all_ratio_of_policy_probabilities) :
             all_ratio_of_policy_probabilities[i] = One

\* the first policy_learn of a round after a sync that changed policy_old
C6_Witness ==
    /\ pc = "learn"
    /\ iter = 1
    /\ synced
    /\ Len(all_ratio_of_policy_probabilities) >= 2
    /\ policy_old # InitialPolicyOld

\* C7: calculate_discounted_reward(r) is the sum over k of discount_rate^k * r[k]
\* (0 for the empty sequence), stated here by the recurrence
\* G(ix) = r[ix] + discount_rate * G(ix + 1); policy_learn records, in episode
\* order then time order, one return per timestep ix, the return-to-go of that
\* episode from ix to its end; discount 0.9 and rewards [1,1,1] give
\* [2.71, 1.9, 1].
ReturnToGo(rewards, ix) ==
    LET G[i \in ix..(Len(rewards) + 1)] ==
            IF i > Len(rewards) THEN Zero
            ELSE RAdd(FromInt(rewards[i]),
                      RMul(hyperparameters.discount_rate, G[i + 1]))
    IN  G[ix]

StepsBefore(e) ==
    LET steps[i \in 1..e] ==
            IF i = 1 THEN 0 ELSE steps[i - 1] + Len(many_episode_states[i - 1])
    IN  steps[e]

C7_DiscountedReturnToGo ==
    /\ CalculateDiscountedReward(<<>>) = Zero
    /\ \A e \in 1..Len(many_episode_rewards) :
          CalculateDiscountedReward(many_episode_rewards[e]) =
              ReturnToGo(many_episode_rewards[e], 1)
    /\ hyperparameters.discount_rate = <<9, 10>> =>
          EpisodeReturns(<<1, 1, 1>>) = <<(<<271, 100>>), (<<19, 10>>), (<<1, 1>>)>>
    /\ (pc = "learn" /\ iter = 1) =>
          /\ Len(all_discounted_returns) = StepsBefore(Len(many_episode_states) + 1)
          /\ \A e \in 1..Len(many_episode_states) :
                \A ix \in 1..Len(many_episode_states[e]) :
                   all_discounted_returns[StepsBefore(e) + ix] =
                       ReturnToGo(many_episode_rewards[e], ix)

\* policy_learn has run on two episodes, the first with rewards [1,1,1] at 0.9
C7_Witness ==
    /\ pc = "learn"
    /\ iter = 1
    /\ hyperparameters.discount_rate = <<9, 10>>
    /\ many_episode_rewards = << <<1, 1, 1>>, <<1, -1>> >>
    /\ all_discounted_returns =
           <<(<<271, 100>>), (<<19, 10>>), (<<1, 1>>), (<<1, 10>>), (<<-1, 1>>)>>

\* C8: for non-empty lists of equal length, calculate_loss is
\* -(1/n) * sum_i min(ratio[i]*G[i], clamp(ratio[i], 1-eps, 1+eps)*G[i]): each
\* term is min(ratio, 1+eps)*G for G >= 0 and max(ratio, 1-eps)*G for G < 0 (the
\* lower of the two products); ratio above 1+eps with positive G gives
\* (1+eps)*G (eps 0.2, ratio 1.5, G 10: 12); all ratios 1 give -mean(G).
OnePlusEps == RAdd(One, hyperparameters.clip_epsilon)
OneMinusEps == RSub(One, hyperparameters.clip_epsilon)

Surrogate(ratio, G) ==
    IF RLeq(Zero, G) THEN RMul(RMin(ratio, OnePlusEps), G)
    ELSE RMul(RMax(ratio, OneMinusEps), G)

C8_ClippedSurrogateLoss ==
    pc = "loss_returned" =>
        LET ratios == all_ratio_of_policy_probabilities
            G == returns_for_loss
            n == Len(ratios)
            raw(i) == RMul(ratios[i], G[i])
        IN  /\ RMul(loss, FromInt(n)) =
                   RNeg(RSum([i \in 1..n |-> Surrogate(ratios[i], G[i])]))
            /\ \A i \in 1..n :
                  /\ RLess(OnePlusEps, ratios[i]) /\ RLess(Zero, G[i]) =>
                        ObservationLosses(ratios, G)[i] = RMul(OnePlusEps, G[i])
                  /\ RLess(G[i], Zero) =>
                        /\ RLeq(ObservationLosses(ratios, G)[i], raw(i))
                        /\ RLeq(ObservationLosses(ratios, G)[i],
                                RMul(ClippedProbabilityRatios(ratios)[i], G[i]))
            /\ (\A i \in 1..n : ratios[i] = One) =>
                  loss = RNeg(RDiv(RSum(G), FromInt(n)))
            /\ (hyperparameters.clip_epsilon = <<1, 5>> /\ ratios = <<(<<3, 2>>)>>
                   /\ G = <<(<<10, 1>>)>>) => loss = <<-12, 1>>

\* calculate_loss has returned for eps 0.2, ratio 1.5 and G 10
C8_Witness ==
    /\ pc = "loss_returned"
    /\ hyperparameters.clip_epsilon = <<1, 5>>
    /\ all_ratio_of_policy_probabilities = <<(<<3, 2>>)>>
    /\ returns_for_loss = <<(<<10, 1>>)>>
    /\ loss = <<-12, 1>>

\* C9: each collection replaces the stored batch (it holds exactly
\* episodes_per_learning_round episodes in its three parallel lists, never more),
\* policy_learn and equalise_policies leave it unchanged, and save_result scores
\* each collected episode once: the score history and the rolling-average
\* history both have one entry per episode collected so far (episode_number of
\* them), the last ones being the scores of the stored batch.
BatchScoredOnce ==
    /\ Len(game_full_episode_scores) = episodes_collected
    /\ Len(rolling_results) = episodes_collected
    /\ episodes_collected = episode_number
    /\ Len(many_episode_states) = Len(many_episode_rewards)
    /\ Len(many_episode_actions) = Len(many_episode_rewards)
    /\ episode_number > 0 =>
          /\ Len(many_episode_rewards) = hyperparameters.episodes_per_learning_round
          /\ LastN(game_full_episode_scores, Len(many_episode_rewards)) =
                 [e \in 1..Len(many_episode_rewards) |-> ISum(many_episode_rewards[e])]
    /\ episode_number = 0 => many_episode_rewards = <<>>

C9_BatchReplacedAndScoredOnce ==
    /\ []BatchScoredOnce
    /\ [][(pc \in {"learn", "sync"}) => (UNCHANGED batchVars)]_vars
    /\ [][pc = "collect" =>
             Len(game_full_episode_scores') =
                 Len(game_full_episode_scores) + Len(many_episode_rewards')]_vars

\* the second collection of single-episode rounds has been scored
C9_Witness ==
    /\ pc = "check"
    /\ hyperparameters.episodes_per_learning_round = 1
    /\ episode_number = 2
    /\ Len(many_episode_rewards) = 1
    /\ Len(game_full_episode_scores) = 2
    /\ Len(rolling_results) = 2

\* C10 as stated: whenever the loop of a call ends without the early stop,
\* num_episodes_to_run <= episode_number < num_episodes_to_run +
\* episodes_per_learning_round.
EndedWithoutEarlyStop ==
    /\ pc = "idle"
    /\ log # <<>>
    /\ Last(log) = "return"
    /\ Count(log, "break") = 0

C10_EndsWithinOneRoundOfTarget ==
    EndedWithoutEarlyStop =>
        /\ num_episodes_to_run <= episode_number
        /\ episode_number <
               num_episodes_to_run + hyperparameters.episodes_per_learning_round

\* C10 amended: every call of run_n_episodes returns; episode_number changes only
\* by a collection, which adds exactly episodes_per_learning_round; a call makes
\* at most ceil((num_episodes_to_run - episode_number at its start) / 
\* episodes_per_learning_round) collections (none when that difference is not
\* positive, and then no learning or sync either); when the loop ends without
\* the early stop, num_episodes_to_run <= episode_number, and episode_number <
\* num_episodes_to_run + episodes_per_learning_round if the call made at least
\* one collection.
CollectionBound ==
    LET need == num_episodes_to_run - episode_number_at_call
        epr == hyperparameters.episodes_per_learning_round
    IN  IF need <= 0 THEN 0 ELSE (need + epr - 1) \div epr

CallBounded ==
    /\ Count(log, "collect") <= CollectionBound
    /\ num_episodes_to_run <= episode_number_at_call =>
          \A i \in 1..Len(log) : log[i] = "return"
    /\ EndedWithoutEarlyStop =>
          /\ num_episodes_to_run <= episode_number
          /\ Count(log, "collect") > 0 =>
                episode_number <
                    num_episodes_to_run + hyperparameters.episodes_per_learning_round
    /\ episode_number =
           episode_number_at_call
               + Count(log, "collect") * hyperparameters.episodes_per_learning_round

C10_TerminatesWithinBound ==
    /\ []CallBounded
    /\ [][/\ episode_number' >= episode_number
          /\ episode_number' # episode_number =>
                /\ pc = "collect"
                /\ episode_number' =
                       episode_number + hyperparameters.episodes_per_learning_round]_vars
    /\ (pc # "idle") ~> (pc = "idle")

\* a call that overshot its target by less than one round and returned, and a
\* later call that found nothing to do
C10_Witness ==
    /\ EndedWithoutEarlyStop
    /\ calls = 2
    /\ num_episodes_to_run = 1
    /\ episode_number = 2
    /\ hyperparameters.episodes_per_learning_round = 2
    /\ log = <<"return">>

=============================================================================
